---- MODULE Spec2Model ----
(***************************************************************************)
(* AtomChain (src/src/atom_chain.py): a linear chain of charged particles  *)
(* with harmonic bonds, Lennard-Jones and Coulomb pair potentials, sampled *)
(* by single-particle Metropolis moves with incrementally updated energies.*)
(*                                                                         *)
(* Numbers.  Positions are points of a one-dimensional integer lattice, so *)
(* every Euclidean distance is a natural number and every energy is a      *)
(* rational whose denominator divides Scale = Lcm^ScaleExp.  A finite      *)
(* number x is stored exactly, as the integer x*Scale, written in Limbs    *)
(* digits of base Base (least significant first, negative numbers as the   *)
(* complement modulo Base^Limbs) because x*Scale exceeds the range of a    *)
(* machine integer.  The IEEE values +inf, -inf and NaN that numpy yields  *)
(* on a division by zero are kept as separate kinds.                       *)
(*                                                                         *)
(* exp.  The acceptance test is  u < exp(a).  exp is strictly increasing,  *)
(* so for u in [0,1) the test is  ln u < a  with ln 0 = -inf, and          *)
(* exp(NaN) = NaN compares false.  The model therefore keeps the uniform   *)
(* draw u and the probability p = exp(a) by their natural logarithms.      *)
(***************************************************************************)
EXTENDS Integers, Sequences, FiniteSets, TLC

\* ------------------------------------------------------------ bounds
\* Coordinates of the lattice are 0..MaxCoord.
MaxCoord == 3
\* Number of calls made on the chains in one run.
MaxSteps == 2
\* Representation of exact numbers: digits, their base, exponent of Scale.
Limbs == 3
Base == 1000000
ScaleExp == 13

\* ------------------------------------------------------------ integers
Abs(x) == IF x < 0 THEN -x ELSE x

RECURSIVE Gcd(_, _)
Gcd(a, b) == IF b = 0 THEN a ELSE Gcd(b, a % b)

RECURSIVE LcmUpTo(_)
LcmUpTo(n) == IF n <= 1 THEN 1
              ELSE LET l == LcmUpTo(n - 1) IN (l * n) \div Gcd(l, n)

\* Every distance between lattice points divides Lcm.
Lcm == LcmUpTo(MaxCoord)

\* ------------------------------------------------------------ digit strings
BigZero == [j \in 1..Limbs |-> 0]

RECURSIVE AddFrom(_, _, _, _)
AddFrom(a, b, j, carry) ==
    IF j > Limbs THEN <<>>
    ELSE LET s == a[j] + b[j] + carry
         IN  <<s % Base>> \o AddFrom(a, b, j + 1, s \div Base)

BigAdd(a, b) == AddFrom(a, b, 1, 0)

RECURSIVE MulFrom(_, _, _, _)
MulFrom(a, m, j, carry) ==
    IF j > Limbs THEN <<>>
    ELSE LET s == a[j] * m + carry
         IN  <<s % Base>> \o MulFrom(a, m, j + 1, s \div Base)

BigOne == [j \in 1..Limbs |-> IF j = 1 THEN 1 ELSE 0]

BigNeg(a) == BigAdd([j \in 1..Limbs |-> Base - 1 - a[j]], BigOne)

BigIsNeg(a) == a[Limbs] >= Base \div 2

\* a * m for a machine integer m.
BigMulInt(a, m) == IF m >= 0 THEN MulFrom(a, m, 1, 0)
                   ELSE BigNeg(MulFrom(a, -m, 1, 0))

RECURSIVE BigPowMul(_, _, _)
BigPowMul(a, m, e) == IF e = 0 THEN a ELSE BigPowMul(BigMulInt(a, m), m, e - 1)

\* Quotient of a non-negative digit string by m > 0, from the top digit down.
RECURSIVE DivFrom(_, _, _, _)
DivFrom(a, m, j, rem) ==
    IF j < 1 THEN <<>>
    ELSE LET cur == rem * Base + a[j]
         IN  DivFrom(a, m, j - 1, cur % m) \o <<cur \div m>>

BigDivInt(a, m) ==
    LET mag == IF BigIsNeg(a) THEN BigNeg(a) ELSE a
        q   == DivFrom(mag, Abs(m), Limbs, 0)
    IN  IF BigIsNeg(a) = (m < 0) THEN q ELSE BigNeg(q)

\* Scale / d^e as a digit string, for a distance d in 1..MaxCoord, e <= ScaleExp.
\* (Twelfth powers of the distances are the highest the energies divide by;
\* the factor left over keeps a quotient by the temperature exact.)
ScaleOverTable ==
    [d \in 1..MaxCoord |->
        [e \in 0..ScaleExp |->
            BigPowMul(BigPowMul(BigOne, Lcm \div d, e), Lcm, ScaleExp - e)]]

ScaleOver(d, e) == ScaleOverTable[d][e]

\* ------------------------------------------------------------ numbers
\* A float: a finite value (v holds value*Scale) or one of the IEEE specials.
Fin(v) == [k |-> "fin", v |-> v]
PInf == [k |-> "inf", v |-> BigZero]
NInf == [k |-> "ninf", v |-> BigZero]
NaN == [k |-> "nan", v |-> BigZero]

FromInt(n) == Fin(BigMulInt(ScaleOver(1, 0), n))

NumZero == Fin(BigZero)

NumNeg(a) == CASE a.k = "fin"  -> Fin(BigNeg(a.v))
               [] a.k = "inf"  -> NInf
               [] a.k = "ninf" -> PInf
               [] OTHER        -> NaN

\* IEEE addition: NaN is contagious and inf + -inf = NaN.
NumAdd(a, b) ==
    IF a.k = "nan" \/ b.k = "nan" THEN NaN
    ELSE IF a.k = "fin" /\ b.k = "fin" THEN Fin(BigAdd(a.v, b.v))
    ELSE IF a.k = "fin" THEN b
    ELSE IF b.k = "fin" THEN a
    ELSE IF a.k = b.k THEN a
    ELSE NaN

NumSub(a, b) == NumAdd(a, NumNeg(b))

NumIsZero(a) == a.k = "fin" /\ a.v = BigZero

\* a * m for an integer m (inf * 0 = NaN).
NumMulInt(a, m) ==
    IF a.k = "nan" THEN NaN
    ELSE IF a.k = "fin" THEN Fin(BigMulInt(a.v, m))
    ELSE IF m = 0 THEN NaN
    ELSE IF m > 0 THEN a
    ELSE NumNeg(a)

\* a / m for an integer m, numpy's float division (x/0 = +-inf, 0/0 = NaN).
NumDivInt(a, m) ==
    IF a.k = "nan" THEN NaN
    ELSE IF a.k = "fin" THEN
        IF m # 0 THEN Fin(BigDivInt(a.v, m))
        ELSE IF a.v = BigZero THEN NaN
        ELSE IF BigIsNeg(a.v) THEN NInf
        ELSE PInf
    ELSE IF m >= 0 THEN a
    ELSE NumNeg(a)

\* IEEE comparison: every comparison with NaN is false.
NumLt(a, b) ==
    IF a.k = "nan" \/ b.k = "nan" THEN FALSE
    ELSE IF a.k = "fin" /\ b.k = "fin" THEN BigIsNeg(BigAdd(a.v, BigNeg(b.v)))
    ELSE IF a.k = "ninf" THEN b.k # "ninf"
    ELSE IF a.k = "inf" THEN FALSE
    ELSE b.k = "inf"

NumLe(a, b) ==
    IF a.k = "nan" \/ b.k = "nan" THEN FALSE
    ELSE a = b \/ NumLt(a, b)

\* Sum of f[0], ..., f[n] in index order (np.sum).
RECURSIVE NumSumTo(_, _)
NumSumTo(f, n) == IF n < 0 THEN NumZero ELSE NumAdd(NumSumTo(f, n - 1), f[n])

NumSum(f) == NumSumTo(f, Cardinality(DOMAIN f) - 1)

\* An array element n / d^e: what  c/dist  and its powers are, d a distance.
\* d = 0 is numpy's division by zero: +-inf by the sign of n, NaN for 0/0.
IntOver(n, d) == [n |-> n, d |-> d, e |-> 1]

PwZero == [n |-> 0, d |-> 1, e |-> 1]

\* x * y for two powers of the same quotient.
PwMul(x, y) == [n |-> x.n * y.n, d |-> x.d, e |-> x.e + y.e]

PwNum(x) ==
    IF x.d = 0 THEN (IF x.n > 0 THEN PInf ELSE IF x.n < 0 THEN NInf ELSE NaN)
    ELSE Fin(BigMulInt(ScaleOver(x.d, x.e), x.n))

\* ------------------------------------------------------------ state
\* chains: the AtomChain objects alive, by the name of the variable holding
\*         them; each a record of the object's fields, its two matrices being
\*         references into heap.
\* heap:   the numpy matrices alive, by address.
\* call:   the frame of the most recent call: its arguments, the values it
\*         drew, its locals and what it returned.
\* steps:  the number of calls made so far.
VARIABLES chains, heap, call, steps

vars == <<chains, heap, call, steps>>

ChainNames == {"s", "c"}

Coords == 0..MaxCoord

\* ln u of the uniform draws u in [0, 1) the model makes: u = 0, u = 1/e
\* and u = 1/sqrt(e).
LogDraws == {NInf, FromInt(-1), PwNum(IntOver(-1, 2))}

\* No index yet (Python's None).
None == -1

\* The defaults of AtomChain's constructor.
spring_const == 1
spring_len == 1
atom_radius == 1
epsilon == 1
boltzmann_const == 1
temperature == 1

\* A Python sequence, indexed from 0.
Arr(t) == [a \in 0..(Len(t) - 1) |-> t[a + 1]]

len(f) == Cardinality(DOMAIN f)

Sq(x) == x * x

\* ------------------------------------------------------------ src.util
\* The energy model the chain consumes: Euclidean distances (on the line,
\* |x - y|), charge products, and the three full-system energies.
pairwise_dist(atoms) ==
    [a \in DOMAIN atoms |-> [b \in DOMAIN atoms |-> Abs(atoms[a] - atoms[b])]]

pairwise_charges(charges) ==
    [a \in DOMAIN charges |-> [b \in DOMAIN charges |-> charges[a] * charges[b]]]

Pairs(m) == {ab \in (DOMAIN m) \X (DOMAIN m) : ab[1] < ab[2]}

RECURSIVE NumSumOver(_, _)
NumSumOver(S, f) ==
    IF S = {} THEN NumZero
    ELSE LET x == CHOOSE y \in S : TRUE
         IN  NumAdd(f[x], NumSumOver(S \ {x}, f))

\* k * sum over the bonds (a, a+1) of (d - L)^2.
spring_energy(dm, L, k) ==
    LET bonds == {ab \in Pairs(dm) : ab[2] = ab[1] + 1}
    IN  NumMulInt(NumSumOver(bonds,
                    [ab \in bonds |-> FromInt(Sq(dm[ab[1]][ab[2]] - L))]), k)

\* 4 eps * sum over the pairs a < b of (r/d)^12 - (r/d)^6.
lennard_energy(dm, r, eps) ==
    LET term(d) == LET x  == IntOver(r, d)
                       x2 == PwMul(x, x)
                       x6 == PwMul(PwMul(x2, x2), x2)
                   IN  NumSub(PwNum(PwMul(x6, x6)), PwNum(x6))
    IN  NumMulInt(NumSumOver(Pairs(dm),
                    [ab \in Pairs(dm) |-> term(dm[ab[1]][ab[2]])]), 4 * eps)

\* sum over the pairs a < b of q_a q_b / d.
coulomb_energy(dm, cm) ==
    NumSumOver(Pairs(dm),
        [ab \in Pairs(dm) |-> PwNum(IntOver(cm[ab[1]][ab[2]], dm[ab[1]][ab[2]]))])

\* A point within max_dist of point.
random_position(point, max_dist) ==
    {q \in Coords : Abs(q - point) <= max_dist}

\* ------------------------------------------------------------ AtomChain
DM(self) == heap[self.dist_matrix]

CM(self) == heap[self.charge_matrix]

\* The matrices referenced by the chains chs.
Refs(chs) == {chs[c].dist_matrix : c \in DOMAIN chs}
               \cup {chs[c].charge_matrix : c \in DOMAIN chs}

\* The lowest address not in use.
Fresh(used) ==
    CHOOSE n \in 1..(Cardinality(used) + 1) :
        n \notin used /\ \A m \in 1..(n - 1) : m \in used

\* A matrix no chain references is freed.
Collect(h, chs) == [o \in Refs(chs) |-> h[o]]

\* __init__ with rebuild=True, the temperature temp and the keyword
\* last_index, the other parameters left at their defaults: the fields of
\* the new object, its matrices built at the addresses d and q.  Nothing in
\* __init__ inspects its arguments: no length or sign is checked, and the
\* rebuild branch stores the last_index it was given.
AtomChainBuild(atoms, charges, temp, last_index, d, q) ==
    LET dm == pairwise_dist(atoms)
        cm == pairwise_charges(charges)
        spring == spring_energy(dm, spring_len, spring_const)
        lennard == lennard_energy(dm, atom_radius, epsilon)
        coulomb == coulomb_energy(dm, cm)
    IN  [obj |-> [atoms |-> atoms, charges |-> charges,
                  atom_radius |-> atom_radius, spring_const |-> spring_const,
                  spring_len |-> spring_len, epsilon |-> epsilon,
                  boltzmann_const |-> boltzmann_const,
                  temperature |-> temp,
                  dist_matrix |-> d, charge_matrix |-> q,
                  spring |-> spring, lennard |-> lennard, coulomb |-> coulomb,
                  energy |-> NumAdd(NumAdd(spring, lennard), coulomb),
                  last_index |-> last_index],
         mats |-> (d :> dm) @@ (q :> cm)]

\* Faulty variant: dist_matrix is kept by reference instead of np.copy'd.
AtomChainRestore_alias(src, d) ==
    [obj |-> [src EXCEPT !.last_index = None], mats |-> (d :> DM(src))]

\* __init__ with rebuild=False, as copy() calls it on src: dist_matrix is
\* np.copy'd to the address d, charge_matrix is the reference it was given.
AtomChainRestore(src, d) ==
    [obj |-> [atoms |-> src.atoms, charges |-> src.charges,
              atom_radius |-> src.atom_radius, spring_const |-> src.spring_const,
              spring_len |-> src.spring_len, epsilon |-> src.epsilon,
              boltzmann_const |-> src.boltzmann_const,
              temperature |-> src.temperature,
              dist_matrix |-> d, charge_matrix |-> src.charge_matrix,
              spring |-> src.spring, lennard |-> src.lennard,
              coulomb |-> src.coulomb, energy |-> src.energy,
              last_index |-> None],
     mats |-> (d :> DM(src))]

\* Faulty variant: the distances come out in reverse order of the particles.
get_trial_dist_vector_reversed(self, p) ==
    [a \in DOMAIN self.atoms |->
        Abs(self.atoms[len(self.atoms) - 1 - a] - p)]

get_trial_dist_vector(self, p) ==
    [a \in DOMAIN self.atoms |-> Abs(self.atoms[a] - p)]

\* Faulty variant: self.atoms[i] = p is forgotten.
update_position_atoms_stale(atoms, i, p) == atoms

\* Faulty variant: only row i is overwritten, column i is forgotten.
update_position_dist_row_only(dm, i, trial_dist_vector) ==
    [dm EXCEPT ![i] = trial_dist_vector]

\* Faulty variant: the row assignment loses its index
\* (self.dist_matrix[:] = trial_dist_vector) and fills every row.
update_position_dist_every_row(dm, i, trial_dist_vector) ==
    LET row == [a \in DOMAIN dm |-> trial_dist_vector]
    IN  [a \in DOMAIN row |-> [row[a] EXCEPT ![i] = trial_dist_vector[a]]]

\* update_position: the new positions, and the new contents of dist_matrix
\* (row i, then column i, overwritten with the trial vector).
update_position_atoms(atoms, i, p) == [atoms EXCEPT ![i] = p]

update_position_dist(dm, i, trial_dist_vector) ==
    LET row == [dm EXCEPT ![i] = trial_dist_vector]
    IN  [a \in DOMAIN row |-> [row[a] EXCEPT ![i] = trial_dist_vector[a]]]

\* Faulty variant: the bond to the next particle is forgotten.
spring_diff_prev_only(self, i, trial_dist_vector) ==
    LET prev_link_diff ==
            IF i = 0 THEN 0
            ELSE Sq(trial_dist_vector[i - 1] - self.spring_len)
                   - Sq(DM(self)[i - 1][i] - self.spring_len)
    IN  FromInt(prev_link_diff * self.spring_const)

\* Faulty variant: the i == 0 guard is forgotten, and Python's index -1
\* reads the last particle.
spring_diff_wrapped(self, i, trial_dist_vector) ==
    LET last == len(self.atoms) - 1
        prev == IF i = 0 THEN last ELSE i - 1
        prev_link_diff ==
            Sq(trial_dist_vector[prev] - self.spring_len)
              - Sq(DM(self)[prev][i] - self.spring_len)
        next_link_diff ==
            IF i = last THEN 0
            ELSE Sq(trial_dist_vector[i + 1] - self.spring_len)
                   - Sq(DM(self)[i][i + 1] - self.spring_len)
    IN  FromInt((prev_link_diff + next_link_diff) * self.spring_const)

spring_diff(self, i, trial_dist_vector) ==
    LET prev_link_diff ==
            IF i = 0 THEN 0
            ELSE Sq(trial_dist_vector[i - 1] - self.spring_len)
                   - Sq(DM(self)[i - 1][i] - self.spring_len)
        next_link_diff ==
            IF i = len(self.atoms) - 1 THEN 0
            ELSE Sq(trial_dist_vector[i + 1] - self.spring_len)
                   - Sq(DM(self)[i][i + 1] - self.spring_len)
    IN  FromInt((prev_link_diff + next_link_diff) * self.spring_const)

coulomb_diff(self, i, trial_dist_vector) ==
    LET diff == [j \in DOMAIN self.atoms |->
                    NumSub(PwNum(IntOver(CM(self)[i][j], trial_dist_vector[j])),
                           PwNum(IntOver(CM(self)[i][j], DM(self)[i][j])))]
    IN  NumSum([diff EXCEPT ![i] = NumZero])

lennard_diff(self, i, trial_dist_vector) ==
    LET Pow6(x) == PwMul(PwMul(PwMul(PwMul(PwMul(x, x), x), x), x), x)
        old0 == [j \in DOMAIN self.atoms |->
                    IntOver(self.atom_radius, DM(self)[i][j])]
        old  == [j \in DOMAIN self.atoms |-> Pow6([old0 EXCEPT ![i] = PwZero][j])]
        new0 == [j \in DOMAIN self.atoms |->
                    IntOver(self.atom_radius, trial_dist_vector[j])]
        new  == [j \in DOMAIN self.atoms |-> Pow6([new0 EXCEPT ![i] = PwZero][j])]
        elem == [j \in DOMAIN self.atoms |->
                    NumAdd(NumSub(NumSub(PwNum(PwMul(new[j], new[j])), PwNum(new[j])),
                                  PwNum(PwMul(old[j], old[j]))),
                           PwNum(old[j]))]
    IN  NumMulInt(NumMulInt(NumSum(elem), self.epsilon), 4)

\* Faulty variant: the minus sign of the exponent is forgotten.
LogProb_unsigned(self, energy_diff) ==
    NumDivInt(energy_diff, self.boltzmann_const * self.temperature)

\* ln of np.exp(-energy_diff / (boltzmann_const * temperature)).
LogProb(self, energy_diff) ==
    NumNeg(NumDivInt(energy_diff, self.boltzmann_const * self.temperature))

\* Faulty variant: the comparison is the wrong way round.
Accepts_reversed(uni, prob) == NumLt(prob, uni)

\* rand.uniform(0, 1) < np.exp(...), on the logarithms.
Accepts(uni, prob) == NumLt(uni, prob)

\* ------------------------------------------------------------ operations
\* The constructions a run starts from:
\*   AtomChain(atoms, charges, rebuild=True)
\*   AtomChain(atoms, charges, temperature=2., last_index=1, rebuild=True)
\*   AtomChain(atoms, charges, temperature=-1., rebuild=True), one particle
InitChains ==
    {[atoms |-> Arr(<<0, 1, 2>>), charges |-> Arr(<<1, -1, 1>>),
      temperature |-> temperature, last_index |-> None],
     [atoms |-> Arr(<<3, 0, 1>>), charges |-> Arr(<<1, 1, -2>>),
      temperature |-> 2, last_index |-> 1],
     [atoms |-> Arr(<<2>>), charges |-> Arr(<<1>>),
      temperature |-> -1, last_index |-> None]}

Init ==
    \E args \in InitChains :
        LET new == AtomChainBuild(args.atoms, args.charges, args.temperature,
                                  args.last_index, 1, 2)
        IN  /\ chains = ("s" :> new.obj)
            /\ heap = new.mats
            /\ call = [op |-> "init", chain |-> "s", args |-> args]
            /\ steps = 0

\* The positions random_position may return for some max_dist.
Candidates(point) ==
    UNION {random_position(point, max_dist) : max_dist \in 1..MaxCoord}

\* Faulty variant: self.energy += energy_diff is forgotten.
mutate_self_no_total(self, i, p, sd, ld, cd, energy_diff, accepted) ==
    LET done == IF accepted = 1
                THEN [self EXCEPT !.atoms = update_position_atoms(@, i, p),
                                  !.spring = NumAdd(@, sd),
                                  !.lennard = NumAdd(@, ld),
                                  !.coulomb = NumAdd(@, cd)]
                ELSE self
    IN  [done EXCEPT !.last_index = i]

\* Faulty variant: self.last_index = i sits inside the acceptance block.
mutate_self_index_on_accept(self, i, p, sd, ld, cd, energy_diff, accepted) ==
    IF accepted = 1
    THEN [self EXCEPT !.atoms = update_position_atoms(@, i, p),
                      !.energy = NumAdd(@, energy_diff),
                      !.spring = NumAdd(@, sd),
                      !.lennard = NumAdd(@, ld),
                      !.coulomb = NumAdd(@, cd),
                      !.last_index = i]
    ELSE self

\* Faulty variant: the matrix is updated before the decision and never restored.
mutate_dist_eager(dm, i, v, accepted) == update_position_dist(dm, i, v)

\* mutate's acceptance block: the object's fields and the contents of its
\* dist_matrix when the call returns.
mutate_self(self, i, p, sd, ld, cd, energy_diff, accepted) ==
    LET done == IF accepted = 1
                THEN [self EXCEPT !.atoms = update_position_atoms(@, i, p),
                                  !.energy = NumAdd(@, energy_diff),
                                  !.spring = NumAdd(@, sd),
                                  !.lennard = NumAdd(@, ld),
                                  !.coulomb = NumAdd(@, cd)]
                ELSE self
    IN  [done EXCEPT !.last_index = i]

mutate_dist(dm, i, v, accepted) ==
    IF accepted = 1 THEN update_position_dist(dm, i, v) ELSE dm

\* chains[c].mutate(max_dist), drawing the index i, the position p and the
\* uniform number whose logarithm is uni.
Mutate(c) ==
    /\ steps < MaxSteps
    /\ steps' = steps + 1
    /\ \E i \in DOMAIN chains[c].atoms :
       \E p \in Candidates(chains[c].atoms[i]) :
       \E v \in {get_trial_dist_vector(chains[c], p)} :
       \E sd \in {spring_diff(chains[c], i, v)},
          ld \in {lennard_diff(chains[c], i, v)},
          cd \in {coulomb_diff(chains[c], i, v)} :
       \E energy_diff \in {NumAdd(NumAdd(sd, ld), cd)} :
       \E uni \in LogDraws :
       \E prob \in {LogProb(chains[c], energy_diff)} :
       \E accepted \in {IF Accepts(uni, prob) THEN 1 ELSE 0} :
         /\ heap' = [heap EXCEPT ![chains[c].dist_matrix] =
                         mutate_dist(@, i, v, accepted)]
         /\ chains' = [chains EXCEPT ![c] =
                         mutate_self(@, i, p, sd, ld, cd, energy_diff, accepted)]
         /\ call' = [op |-> "mutate", chain |-> c, i |-> i, p |-> p, v |-> v,
                     spring_diff |-> sd, lennard_diff |-> ld,
                     coulomb_diff |-> cd, energy_diff |-> energy_diff,
                     uni |-> uni, prob |-> prob, accepted |-> accepted,
                     ret |-> accepted]

\* Faulty variant: self.energy += energy_diff sits outside the acceptance
\* block.
test_mutate_self_energy_always(self, i, p, sd, ld, cd, energy_diff, accepted) ==
    LET done == IF accepted = 1
                THEN [self EXCEPT !.atoms = update_position_atoms(@, i, p),
                                  !.spring = NumAdd(@, sd),
                                  !.lennard = NumAdd(@, ld),
                                  !.coulomb = NumAdd(@, cd)]
                ELSE self
    IN  [done EXCEPT !.energy = NumAdd(@, energy_diff), !.last_index = i]

\* test_mutate's acceptance block.
test_mutate_self(self, i, p, sd, ld, cd, energy_diff, accepted) ==
    LET done == IF accepted = 1
                THEN [self EXCEPT !.atoms = update_position_atoms(@, i, p),
                                  !.energy = NumAdd(@, energy_diff),
                                  !.spring = NumAdd(@, sd),
                                  !.lennard = NumAdd(@, ld),
                                  !.coulomb = NumAdd(@, cd)]
                ELSE self
    IN  [done EXCEPT !.last_index = i]

\* Faulty variant: update_position runs before the decision.
test_mutate_dist_eager(dm, i, v, accepted) == update_position_dist(dm, i, v)

test_mutate_dist(dm, i, v, accepted) ==
    IF accepted = 1 THEN update_position_dist(dm, i, v) ELSE dm

\* chains[c].test_mutate(max_dist): the same move, returning a record.
TestMutate(c) ==
    /\ steps < MaxSteps
    /\ steps' = steps + 1
    /\ \E i \in DOMAIN chains[c].atoms :
       \E p \in Candidates(chains[c].atoms[i]) :
       \E v \in {get_trial_dist_vector(chains[c], p)} :
       \E sd \in {spring_diff(chains[c], i, v)},
          ld \in {lennard_diff(chains[c], i, v)},
          cd \in {coulomb_diff(chains[c], i, v)} :
       \E energy_diff \in {NumAdd(NumAdd(sd, ld), cd)} :
       \E uni \in LogDraws :
       \E old \in {chains[c].energy} :
       \E new \in {NumAdd(old, energy_diff)} :
       \E prob \in {LogProb(chains[c], energy_diff)} :
       \E accepted \in {IF Accepts(uni, prob) THEN 1 ELSE 0} :
         /\ heap' = [heap EXCEPT ![chains[c].dist_matrix] =
                         test_mutate_dist(@, i, v, accepted)]
         /\ chains' = [chains EXCEPT ![c] =
                         test_mutate_self(@, i, p, sd, ld, cd, energy_diff,
                                          accepted)]
         /\ call' = [op |-> "test_mutate", chain |-> c, i |-> i, p |-> p,
                     v |-> v, spring_diff |-> sd, lennard_diff |-> ld,
                     coulomb_diff |-> cd, energy_diff |-> energy_diff,
                     uni |-> uni, prob |-> prob, accepted |-> accepted,
                     ret |-> [acc |-> accepted, r |-> uni, p |-> prob,
                              old |-> old, new |-> new, d |-> v[i]]]

\* Faulty variant: the full pass also clears last_index, as construction does.
Recompute_clears_index(c) ==
    /\ steps < MaxSteps
    /\ steps' = steps + 1
    /\ LET self == chains[c]
           others == Refs([x \in DOMAIN chains \ {c} |-> chains[x]])
           d == Fresh(others)
           q == Fresh(others \cup {d})
           dm == pairwise_dist(self.atoms)
           cm == pairwise_charges(self.charges)
           spring == spring_energy(dm, self.spring_len, self.spring_const)
           lennard == lennard_energy(dm, self.atom_radius, self.epsilon)
           coulomb == coulomb_energy(dm, cm)
           after == [chains EXCEPT ![c] =
                        [self EXCEPT !.dist_matrix = d, !.charge_matrix = q,
                                     !.spring = spring, !.lennard = lennard,
                                     !.coulomb = coulomb,
                                     !.energy = NumAdd(NumAdd(spring, lennard),
                                                       coulomb),
                                     !.last_index = None]]
       IN  /\ chains' = after
           /\ heap' = Collect((d :> dm) @@ (q :> cm) @@ heap, after)
    /\ call' = [op |-> "recompute", chain |-> c]

\* chains[c].recompute(): both matrices are rebuilt as new objects.
Recompute(c) ==
    /\ steps < MaxSteps
    /\ steps' = steps + 1
    /\ LET self == chains[c]
           others == Refs([x \in DOMAIN chains \ {c} |-> chains[x]])
           d == Fresh(others)
           q == Fresh(others \cup {d})
           dm == pairwise_dist(self.atoms)
           cm == pairwise_charges(self.charges)
           spring == spring_energy(dm, self.spring_len, self.spring_const)
           lennard == lennard_energy(dm, self.atom_radius, self.epsilon)
           coulomb == coulomb_energy(dm, cm)
           after == [chains EXCEPT ![c] =
                        [self EXCEPT !.dist_matrix = d, !.charge_matrix = q,
                                     !.spring = spring, !.lennard = lennard,
                                     !.coulomb = coulomb,
                                     !.energy = NumAdd(NumAdd(spring, lennard),
                                                       coulomb)]]
       IN  /\ chains' = after
           /\ heap' = Collect((d :> dm) @@ (q :> cm) @@ heap, after)
    /\ call' = [op |-> "recompute", chain |-> c]

\* chains[dst] = chains[src].copy()
Copy(src, dst) ==
    /\ steps < MaxSteps
    /\ steps' = steps + 1
    /\ LET kept == Refs([x \in DOMAIN chains \ {dst} |-> chains[x]])
           new == AtomChainRestore(chains[src], Fresh(kept))
           after == (dst :> new.obj) @@ chains
       IN  /\ chains' = after
           /\ heap' = Collect(new.mats @@ heap, after)
    /\ call' = [op |-> "copy", chain |-> src, to |-> dst]

Next ==
    \/ \E c \in DOMAIN chains : Mutate(c)
    \/ \E c \in DOMAIN chains : TestMutate(c)
    \/ \E c \in DOMAIN chains : Recompute(c)
    \/ \E c \in DOMAIN chains : \E dst \in ChainNames \ {c} : Copy(c, dst)

Spec == Init /\ [][Next]_vars

\* ------------------------------------------------------------ claims
MoveOps == {"mutate", "test_mutate"}

\* The last call was a move that was accepted and displaced its particle.
Moved == call.op \in MoveOps /\ call.accepted = 1 /\ call.v[call.i] > 0

\* C1: the four energies a chain holds are the ones the full energy
\* functions give for its current positions and charges, so that recompute()
\* would change none of them.
DeltaConsistency ==
    \A c \in DOMAIN chains :
        LET self == chains[c]
            dm == pairwise_dist(self.atoms)
            cm == pairwise_charges(self.charges)
            spring == spring_energy(dm, self.spring_len, self.spring_const)
            lennard == lennard_energy(dm, self.atom_radius, self.epsilon)
            coulomb == coulomb_energy(dm, cm)
        IN  /\ self.spring = spring
            /\ self.lennard = lennard
            /\ self.coulomb = coulomb
            /\ self.energy = NumAdd(NumAdd(spring, lennard), coulomb)

\* A second accepted move, of another particle than the first, that changed
\* all three energies.
DeltaConsistencyWitness ==
    /\ Moved
    /\ steps >= 2
    /\ ~NumIsZero(call.spring_diff)
    /\ ~NumIsZero(call.lennard_diff)
    /\ ~NumIsZero(call.coulomb_diff)
    /\ \E a \in DOMAIN chains[call.chain].atoms :
          a # call.i /\ DM(chains[call.chain])[a][a] # 0

\* C2: the diagonal of every chain's distance matrix is zero.
ZeroDiagonal ==
    \A c \in DOMAIN chains :
        \A a \in DOMAIN chains[c].atoms : DM(chains[c])[a][a] = 0

\* C3: every chain's distance matrix is symmetric.
Symmetry ==
    \A c \in DOMAIN chains :
        \A a, b \in DOMAIN chains[c].atoms :
            DM(chains[c])[a][b] = DM(chains[c])[b][a]

\* mutate has committed a move that rewrote a row and a column.
SymmetryWitness ==
    /\ Moved
    /\ call.op = "mutate"
    /\ \E a \in DOMAIN call.v : a # call.i /\ call.v[a] # call.v[call.i]

\* C4: off the diagonal, the distance matrix holds the distances between
\* the chain's current positions.
DistanceCache ==
    \A c \in DOMAIN chains :
        \A a, b \in DOMAIN chains[c].atoms :
            a # b => DM(chains[c])[a][b] = Abs(chains[c].atoms[a] - chains[c].atoms[b])

\* test_mutate has committed a move of a particle that had moved before.
DistanceCacheWitness ==
    /\ Moved
    /\ call.op = "test_mutate"
    /\ steps >= 2
    /\ chains[call.chain].atoms[call.i] = call.p

\* C5: the total a chain holds is the sum of its three partial energies.
TotalIsSum ==
    \A c \in DOMAIN chains :
        chains[c].energy =
            NumAdd(NumAdd(chains[c].spring, chains[c].lennard), chains[c].coulomb)

\* A copy has been made and a move that changed the energy was accepted.
TotalIsSumWitness ==
    /\ Moved
    /\ Cardinality(DOMAIN chains) = 2
    /\ ~NumIsZero(call.energy_diff)

\* C6: with boltzmann_const * temperature > 0, a move whose energy
\* difference is <= 0 has acceptance probability >= 1 (ln p >= 0) and is
\* accepted and committed whatever the uniform draw.
MetropolisCertainty ==
    (/\ call.op \in MoveOps
     /\ chains[call.chain].boltzmann_const * chains[call.chain].temperature > 0
     /\ NumLe(call.energy_diff, NumZero))
    => /\ NumLe(NumZero, call.prob)
       /\ call.accepted = 1
       /\ chains[call.chain].atoms[call.i] = call.p

\* A move that lowers the energy, drawn with u = 1/e > 0.
MetropolisCertaintyWitness ==
    /\ call.op \in MoveOps
    /\ NumLt(call.energy_diff, NumZero)
    /\ call.uni = FromInt(-1)
    /\ call.accepted = 1
    /\ call.v[call.i] > 0

\* What the driver can observe of chain y.
Observable(y) ==
    [atoms |-> chains[y].atoms, dist |-> DM(chains[y]),
     spring |-> chains[y].spring, lennard |-> chains[y].lennard,
     coulomb |-> chains[y].coulomb, energy |-> chains[y].energy]

\* C7: a mutate, test_mutate or recompute call on one chain leaves the
\* positions, distance matrix and energies of the other chain unchanged.
CopyIndependence ==
    [][\A y \in DOMAIN chains :
          (call'.op \in MoveOps \cup {"recompute"} /\ call'.chain # y)
          => Observable(y)' = Observable(y)]_vars

\* Both chains exist and the copy has committed a move.
CopyIndependenceWitness ==
    /\ Moved
    /\ DOMAIN chains = ChainNames
    /\ call.chain = "c"

\* C8: no matrix is referenced by two chains.
NoAliasing ==
    \A x, y \in DOMAIN chains :
        x # y => {chains[x].dist_matrix, chains[x].charge_matrix}
                   \cap {chains[y].dist_matrix, chains[y].charge_matrix} = {}

\* C9: a rejected move changes nothing but last_index of the chain it was
\* tried on.
RejectIsNoOp ==
    [][(call'.op \in MoveOps /\ call'.accepted = 0)
       => /\ heap' = heap
          /\ chains' = [chains EXCEPT ![call'.chain].last_index =
                                          chains'[call'.chain].last_index]]_vars

\* A move of finite energy difference was rejected by the draw.
RejectIsNoOpWitness ==
    /\ call.op \in MoveOps
    /\ call.accepted = 0
    /\ call.energy_diff.k = "fin"
    /\ call.v[call.i] > 0
    /\ chains[call.chain].last_index = call.i

\* What the call returned as its acceptance flag.
Returned(f) == IF f.op = "mutate" THEN f.ret ELSE f.ret.acc

\* C10: p = exp(-energy_diff / (boltzmann_const * temperature)); the move is
\* accepted iff u < p; when it is, positions[i] is the candidate, row i
\* and column i of the distance matrix are the trial vector, each energy
\* has grown by its difference and the call returns 1; when it is not,
\* none of these changed and the call returns 0.
AcceptRule ==
    [][call'.op \in MoveOps =>
        LET f == call'
            self == chains[f.chain]
            after == chains'[f.chain]
            dm == heap'[after.dist_matrix]
        IN  /\ f.prob = NumNeg(NumDivInt(f.energy_diff,
                                   self.boltzmann_const * self.temperature))
            /\ (f.accepted = 1) <=> NumLt(f.uni, f.prob)
            /\ Returned(f) = f.accepted
            /\ f.accepted \in {0, 1}
            /\ f.accepted = 1 =>
                /\ after.atoms = [self.atoms EXCEPT ![f.i] = f.p]
                /\ dm[f.i] = f.v
                /\ \A a \in DOMAIN f.v : dm[a][f.i] = f.v[a]
                /\ after.spring = NumAdd(self.spring, f.spring_diff)
                /\ after.lennard = NumAdd(self.lennard, f.lennard_diff)
                /\ after.coulomb = NumAdd(self.coulomb, f.coulomb_diff)
                /\ after.energy =
                     NumAdd(self.energy,
                            NumAdd(NumAdd(f.spring_diff, f.lennard_diff),
                                   f.coulomb_diff))
            /\ f.accepted = 0 =>
                /\ after.atoms = self.atoms
                /\ dm = DM(self)
                /\ after.spring = self.spring
                /\ after.lennard = self.lennard
                /\ after.coulomb = self.coulomb
                /\ after.energy = self.energy]_vars

\* A move that raises the energy (p < 1) was accepted by mutate.
AcceptRuleWitness ==
    /\ Moved
    /\ call.op = "mutate"
    /\ NumLt(call.prob, NumZero)
    /\ call.uni = FromInt(-1)

\* C11: after every mutate or test_mutate call, last_index of the chain it
\* was made on is the index i the call drew, accepted or not, and i is one
\* of 0, ..., N-1.
LastIndexIsDrawn ==
    call.op \in MoveOps =>
        /\ chains[call.chain].last_index = call.i
        /\ call.i \in 0..(len(chains[call.chain].atoms) - 1)

\* A second move on a chain, rejected, of another particle than the move
\* before it or than the last_index the chain was built with.
LastIndexIsDrawnWitness ==
    /\ call.op \in MoveOps
    /\ call.accepted = 0
    /\ steps >= 2
    /\ DOMAIN chains = {"s"}
    /\ chains["s"].last_index = call.i
    /\ \E a \in DOMAIN chains["s"].atoms :
          a # call.i /\ DM(chains["s"])[a][a] # 0

\* C12: a chain just constructed has no last_index: neither one built with
\* rebuild=True, whatever its arguments, nor the copy() of a chain.
FreshUndefined ==
    /\ call.op = "init" => chains[call.chain].last_index = None
    /\ call.op = "copy" => chains[call.to].last_index = None

\* C13: test_mutate makes the state transition mutate makes.  From one
\* state, with the same index i, candidate p and uniform draw, each method
\* leaves the chain (positions, distance matrix, energies, last_index) as
\* the other would, and the record's acc is the flag mutate returns.
SameTransition ==
    [][call'.op \in MoveOps =>
        \E f \in {call'} :
        \E self \in {chains[f.chain]} :
        \E dm \in {DM(self)} :
        \E energy_diff \in {NumAdd(NumAdd(f.spring_diff, f.lennard_diff),
                                   f.coulomb_diff)} :
        \E accepted \in {IF Accepts(f.uni, LogProb(self, energy_diff))
                          THEN 1 ELSE 0} :
        \E done \in {[self |-> chains'[f.chain],
                       dist |-> heap'[chains'[f.chain].dist_matrix],
                       flag |-> Returned(f)]} :
            /\ done = [self |-> mutate_self(self, f.i, f.p, f.spring_diff,
                                            f.lennard_diff, f.coulomb_diff,
                                            energy_diff, accepted),
                       dist |-> mutate_dist(dm, f.i, f.v, accepted),
                       flag |-> accepted]
            /\ done = [self |-> test_mutate_self(self, f.i, f.p, f.spring_diff,
                                                 f.lennard_diff, f.coulomb_diff,
                                                 energy_diff, accepted),
                       dist |-> test_mutate_dist(dm, f.i, f.v, accepted),
                       flag |-> accepted]]_vars

\* test_mutate has rejected a move on a chain an earlier move had moved a
\* particle of.
SameTransitionWitness ==
    /\ call.op = "test_mutate"
    /\ call.accepted = 0
    /\ call.ret.acc = 0
    /\ call.v[call.i] > 0
    /\ \E a \in DOMAIN call.v : DM(chains[call.chain])[a][a] # 0

\* What recompute() rewrites of chain y, and what it has no business with.
Recomputed(y) ==
    [dist |-> DM(chains[y]), charge |-> CM(chains[y]),
     spring |-> chains[y].spring, lennard |-> chains[y].lennard,
     coulomb |-> chains[y].coulomb, energy |-> chains[y].energy]

Kept(y) ==
    [atoms |-> chains[y].atoms, charges |-> chains[y].charges,
     atom_radius |-> chains[y].atom_radius,
     spring_const |-> chains[y].spring_const,
     spring_len |-> chains[y].spring_len, epsilon |-> chains[y].epsilon,
     boltzmann_const |-> chains[y].boltzmann_const,
     temperature |-> chains[y].temperature,
     last_index |-> chains[y].last_index]

\* C14: recompute() never changes positions, charges, parameters or
\* last_index, and a recompute() straight after a recompute() of the same
\* chain leaves both matrices and the four energies as the first left them.
IdempotentRecompute ==
    [][\A y \in DOMAIN chains :
          (call'.op = "recompute" /\ call'.chain = y) =>
            /\ Kept(y)' = Kept(y)
            /\ (call.op = "recompute" /\ call.chain = y)
                 => Recomputed(y)' = Recomputed(y)]_vars

\* The second of two recomputes in a row: of a chain built without a
\* last_index, never moved and never copied.
IdempotentRecomputeWitness ==
    /\ call.op = "recompute"
    /\ steps = 2
    /\ DOMAIN chains = {"s"}
    /\ chains["s"].last_index = None
    /\ len(chains["s"].atoms) > 1

\* C15: the spring difference of a move of particle i is made of the bonds
\* of the linear chain that end in i: (0,1) alone for i = 0, (N-2,N-1)
\* alone for i = N-1, (i-1,i) and (i,i+1) for an interior i, and none, so
\* 0, for N = 1.  No bond joins particle 0 and particle N-1.
EndpointSpring ==
    [][call'.op \in MoveOps =>
        LET f == call'
            self == chains[f.chain]
            N == len(self.atoms)
            k == self.spring_const
            L == self.spring_len
            bond(a, b, moved) ==
                Sq(f.v[IF moved = a THEN b ELSE a] - L) - Sq(DM(self)[a][b] - L)
        IN  f.spring_diff =
              FromInt(CASE N = 1       -> 0
                        [] N > 1 /\ f.i = 0     -> k * bond(0, 1, 0)
                        [] N > 1 /\ f.i = N - 1 -> k * bond(N - 2, N - 1, N - 1)
                        [] OTHER ->
                             k * (bond(f.i - 1, f.i, f.i)
                                    + bond(f.i, f.i + 1, f.i)))]_vars

\* A move of particle 0 of a three-particle chain was tried (and rejected,
\* so that the matrix still holds the old distances) that changes the bond
\* (0,1) and would change a bond between particles 0 and 2, were there one.
EndpointSpringWitness ==
    /\ call.op \in MoveOps
    /\ call.i = 0
    /\ len(call.v) = 3
    /\ call.accepted = 0
    /\ ~NumIsZero(call.spring_diff)
    /\ Sq(call.v[2] - chains[call.chain].spring_len)
         # Sq(DM(chains[call.chain])[2][0] - chains[call.chain].spring_len)

\* The six parameters of chain y.
Parameters(y) ==
    [atom_radius |-> chains[y].atom_radius,
     spring_const |-> chains[y].spring_const,
     spring_len |-> chains[y].spring_len, epsilon |-> chains[y].epsilon,
     boltzmann_const |-> chains[y].boltzmann_const,
     temperature |-> chains[y].temperature]

\* C16: an accepted move of particle i leaves alone every position but
\* that of i, every entry of the distance matrix outside row i and column
\* i, the charges, the charge matrix and the six parameters; and whatever
\* mutate, test_mutate and recompute calls are made, the charge matrix
\* holds charges[a] * charges[b].
MutationFrame ==
    [][\A y \in DOMAIN chains :
        /\ (call'.op \in MoveOps /\ call'.chain = y /\ call'.accepted = 1) =>
             /\ \A a \in DOMAIN chains[y].atoms :
                   a # call'.i => chains[y].atoms'[a] = chains[y].atoms[a]
             /\ \A a, b \in DOMAIN chains[y].atoms :
                   (a # call'.i /\ b # call'.i) => DM(chains[y])'[a][b] = DM(chains[y])[a][b]
             /\ chains[y].charges' = chains[y].charges
             /\ CM(chains[y])' = CM(chains[y])
             /\ Parameters(y)' = Parameters(y)
        /\ (call'.op \in MoveOps \cup {"recompute"} /\ call'.chain = y) =>
             \A a, b \in DOMAIN chains[y].charges :
                 CM(chains[y])'[a][b] = chains[y].charges'[a] * chains[y].charges'[b]]_vars

\* The second accepted move on a three-particle chain, of another particle
\* than the first.
MutationFrameWitness ==
    /\ Moved
    /\ steps >= 2
    /\ len(call.v) = 3
    /\ \E a \in DOMAIN call.v :
          a # call.i /\ DM(chains[call.chain])[a][a] # 0
    /\ DM(chains[call.chain])[call.i] = call.v

\* C17: a construction yields a chain only from valid arguments: as many
\* charges as positions, and a positive temperature.
ConstructionValidated ==
    (call.op = "init" /\ call.chain \in DOMAIN chains) =>
        /\ len(call.args.atoms) = len(call.args.charges)
        /\ call.args.temperature > 0

\* C18: a candidate at distance 0 from another particle puts no NaN into
\* the chain's energies or distance matrix, nor into the probability and
\* the energy after the move that test_mutate returns.
NoSilentNaN ==
    (/\ call.op \in MoveOps
     /\ \E j \in DOMAIN call.v : j # call.i /\ call.v[j] = 0)
    => /\ \A e \in {chains[call.chain].spring, chains[call.chain].lennard,
                     chains[call.chain].coulomb, chains[call.chain].energy} :
             e.k # "nan"
       /\ call.op = "test_mutate" =>
             call.ret.p.k # "nan" /\ call.ret.new.k # "nan"

\* C19: in the record test_mutate returns, d is v[i], the distance from
\* the candidate to where particle i was when the call began, for accepted
\* and rejected moves alike, and old is the chain's energy when the call
\* began.
RecordBefore ==
    [][call'.op = "test_mutate" =>
        LET f == call'
            self == chains[f.chain]
        IN  /\ f.ret.d = f.v[f.i]
            /\ f.ret.d = Abs(f.p - self.atoms[f.i])
            /\ f.ret.old = self.energy]_vars

\* test_mutate has accepted a move of two lattice steps that changed the
\* energy.
RecordBeforeWitness ==
    /\ Moved
    /\ call.op = "test_mutate"
    /\ call.ret.d >= 2
    /\ call.ret.old # chains[call.chain].energy

\* C20: in the record test_mutate returns, new is old + energy_diff of the
\* proposed move, accepted or not: it is the chain's energy after the call
\* exactly when the move was accepted or energy_diff is 0, and after a
\* rejected move the chain's energy is still old.
RecordAfter ==
    [][call'.op = "test_mutate" =>
        LET f == call'
            now == chains'[f.chain].energy
        IN  /\ f.ret.new = NumAdd(f.ret.old, f.energy_diff)
            /\ (f.ret.new = now) <=> (f.accepted = 1 \/ NumIsZero(f.energy_diff))
            /\ f.accepted = 0 => now = f.ret.old]_vars

\* test_mutate has rejected a move of finite, nonzero energy difference:
\* the record's new is not the chain's energy.
RecordAfterWitness ==
    /\ call.op = "test_mutate"
    /\ call.accepted = 0
    /\ call.energy_diff.k = "fin"
    /\ call.ret.new # chains[call.chain].energy
    /\ call.ret.old = chains[call.chain].energy

====
